---- MODULE Spec2Model ----
(***************************************************************************)
(* Model of Backup-services/app.py: the PostgreSQL backup pipeline         *)
(* backup_db (validate -> pg_dump -> optional gzip -> upload to GCS ->     *)
(* cleanup of temporary files) and its two entry points, main() and the    *)
(* Flask handler trigger_backup().                                         *)
(*                                                                         *)
(* Python strings are sequences of tokens (mostly single characters), so   *)
(* that rstrip / lstrip / lower / strftime are computed and not assumed.   *)
(* Python's None is the one-token sequence NoneStr, which no string of the *)
(* model equals.                                                           *)
(***************************************************************************)
EXTENDS Integers, Sequences, FiniteSets, TLC

VARIABLES env, clock, pc, entry, cfg, tmp_sql, gz_path, fs, effects, uploadCall,
          pending, outcome, response

vars == <<env, clock, pc, entry, cfg, tmp_sql, gz_path, fs, effects, uploadCall,
          pending, outcome, response>>

(* ---------------------------- bounds ---------------------------------- *)
\* number of temporary-file names the temp directory can hand out
NumNames == 4
\* largest file size (bytes) pg_dump or gzip may produce
MaxSize == 2

\* the two concurrent invocations of backup_db that are interleaved
Runs == {1, 2}
Names == 1..NumNames
Sizes == 1..MaxSize

(* ---------------------------- strings --------------------------------- *)
NoneStr == <<"<None>">>

Truthy(v) == v # NoneStr /\ v # <<>>

\* Python `a or b`
PyOr(a, b) == IF Truthy(a) THEN a ELSE b

RECURSIVE RStrip(_, _)
RStrip(s, c) ==
    IF s # <<>> /\ s[Len(s)] = c THEN RStrip(SubSeq(s, 1, Len(s) - 1), c) ELSE s

RECURSIVE LStrip(_, _)
LStrip(s, c) ==
    IF s # <<>> /\ s[1] = c THEN LStrip(Tail(s), c) ELSE s

LowerChar(c) ==
    CASE c = "F" -> "f"
      [] c = "A" -> "a"
      [] c = "L" -> "l"
      [] c = "S" -> "s"
      [] c = "E" -> "e"
      [] c = "N" -> "n"
      [] c = "O" -> "o"
      [] OTHER   -> c

Lower(s) == [i \in 1..Len(s) |-> LowerChar(s[i])]

Digits == <<"0", "1", "2", "3", "4", "5", "6", "7", "8", "9">>
Digit(d) == Digits[d + 1]
Pad2(n) == <<Digit((n \div 10) % 10), Digit(n % 10)>>
Pad4(n) == <<Digit((n \div 1000) % 10), Digit((n \div 100) % 10)>> \o Pad2(n)

\* datetime.strftime("%Y%m%d-%H%M%S")
Strftime(t) ==
    Pad4(t.Y) \o Pad2(t.M) \o Pad2(t.D) \o <<"-">> \o Pad2(t.h) \o Pad2(t.m) \o Pad2(t.s)

(* ------------------------- pure functions ------------------------------ *)
\* mutant: the bucket name is not checked
_validate_env_db_only(db_url, bucket_name) ==
    IF ~Truthy(db_url) THEN <<"DATABASE_URL is not set">> ELSE NoneStr

\* _validate_env: the message of the ValueError raised, or NoneStr
_validate_env(db_url, bucket_name) ==
    IF ~Truthy(db_url) THEN <<"DATABASE_URL is not set">>
    ELSE IF ~Truthy(bucket_name) THEN <<"BUCKET_NAME is not set">>
    ELSE NoneStr

\* mutant: the prefix is joined as given, trailing slashes kept
_safe_blob_name_no_strip(prefix, name) ==
    IF ~Truthy(prefix) THEN name ELSE prefix \o <<"/">> \o name

_safe_blob_name(prefix, name) ==
    IF ~Truthy(prefix) THEN name
    ELSE RStrip(prefix, "/") \o <<"/">> \o LStrip(name, "/")

FalseSpellings == { <<"0">>, <<"f", "a", "l", "s", "e">>, <<"n", "o">>, <<"n">> }

\* _env_bool(name, default) applied to the value v = os.environ.get(name)
_env_bool(v, default) ==
    IF v = NoneStr THEN default ELSE Lower(v) \notin FalseSpellings

\* base_name and upload_name of backup_db
base_name(t) == <<"b", "a", "c", "k", "u", "p", "-">> \o Strftime(t) \o <<".", "s", "q", "l">>
upload_name(t, compress) == base_name(t) \o (IF compress THEN <<".", "g", "z">> ELSE <<>>)

(* --------------------------- environment ------------------------------ *)
Timestamps ==
    { [Y |-> 2024, M |-> 1, D |-> 2, h |-> 3, m |-> 4, s |-> 5],
      [Y |-> 2025, M |-> 12, D |-> 31, h |-> 23, m |-> 59, s |-> 59] }

DbUrls    == { NoneStr, <<>>, <<"postgres://db">> }
Buckets   == { NoneStr, <<>>, <<"bkt">> }
Prefixes  == { NoneStr, <<>>, <<"n", "i", "g", "h", "t", "l", "y">>,
               <<"a", "/">>, <<"a", "/", "/">>, <<"/">>, <<"a", "/", "b">> }
Toggles   == { NoneStr, <<"0">>, <<"F", "a", "l", "s", "e">>, <<"N", "O">>, <<"n">>,
               <<"1">>, <<"o", "f", "f">>, <<>> }
DumpPaths == { NoneStr, <<"/opt/pg/pg_dump">> }

BaseEnv == [DATABASE_URL |-> <<"postgres://db">>, BUCKET_NAME |-> <<"bkt">>,
            BACKUP_PREFIX |-> NoneStr, BACKUP_COMPRESS |-> NoneStr,
            PG_DUMP_PATH |-> NoneStr]

\* the process environments examined: the base one with the required
\* settings varied, and every prefix with a few compression toggles
Envs ==
    { [BaseEnv EXCEPT !.DATABASE_URL = d, !.BUCKET_NAME = b] : d \in DbUrls, b \in Buckets }
    \cup { [BaseEnv EXCEPT !.BACKUP_PREFIX = p, !.BACKUP_COMPRESS = c] :
               p \in Prefixes, c \in {NoneStr, <<"0">>} }
    \cup { [BaseEnv EXCEPT !.BACKUP_COMPRESS = c, !.PG_DUMP_PATH = g] :
               c \in Toggles, g \in DumpPaths }

\* os.environ.get(name) and os.environ.get(name, default)
EnvGet(name) == env[name]
EnvGetDefault(name, default) == IF env[name] = NoneStr THEN default ELSE env[name]

(* ----------------------------- records -------------------------------- *)
NoFile == [exists |-> FALSE, owner |-> 0, src |-> 0, gz |-> FALSE, size |-> 0]
NoOutcome == [kind |-> "none"]
NoCfg == [set |-> FALSE]
NoCall == [made |-> FALSE]

Err(type, msg) == [kind |-> "err", type |-> type, msg |-> msg]
Ok(bucket, blob, size) == [kind |-> "ok", bucket |-> bucket, blob |-> blob, size |-> size]

Exists(n) == n # 0 /\ fs[n].exists
FreeNames == { n \in Names : ~fs[n].exists }

\* everything but the environment and the calls to come
InitRest ==
    /\ entry = [r \in Runs |-> "none"]
    /\ cfg = [r \in Runs |-> NoCfg]
    /\ tmp_sql = [r \in Runs |-> 0]
    /\ gz_path = [r \in Runs |-> 0]
    /\ fs = [n \in Names |-> NoFile]
    /\ effects = [r \in Runs |-> {}]
    /\ uploadCall = [r \in Runs |-> NoCall]
    /\ pending = [r \in Runs |-> NoOutcome]
    /\ outcome = [r \in Runs |-> NoOutcome]
    /\ response = [r \in Runs |-> NoOutcome]

\* one invocation, under every environment examined; clock is the set of
\* instants datetime.now may show when backup_db is entered
Init ==
    /\ env \in Envs
    /\ clock = Timestamps
    /\ pc = [r \in Runs |-> IF r = 1 THEN "idle" ELSE "off"]
    /\ InitRest

\* two concurrent invocations (two requests to /backup, or main() beside a
\* request) within the same second, compression disabled in the environment
\* (main() then uploads the raw dump, a request the gzip file)
ConcEnvs == { [BaseEnv EXCEPT !.BACKUP_COMPRESS = <<"0">>] }

InitConc ==
    /\ env \in ConcEnvs
    /\ clock = { CHOOSE t \in Timestamps : t.Y = 2024 }
    /\ pc = [r \in Runs |-> "idle"]
    /\ InitRest

(* ------------------------ backup_db, step by step ---------------------- *)
Log(r, ev) == effects' = [effects EXCEPT ![r] = @ \cup {ev}]

\* mutant: the raw dump is uploaded whatever the compress flag
upload_path_raw(r) == tmp_sql[r]

\* the local variable upload_path once the compression branch has run
upload_path(r) == IF cfg[r].compress THEN gz_path[r] ELSE tmp_sql[r]

\* mutant: a fixed path in the temp directory, opened for writing
TempCandidatesFixed == {1}

\* names tempfile.NamedTemporaryFile may return: it creates the file
\* exclusively, so never a name that exists (names are interchangeable: the
\* lowest unused one stands for the random fresh name)
TempCandidates ==
    IF FreeNames = {} THEN {}
    ELSE { CHOOSE n \in FreeNames : \A k \in FreeNames : n <= k }

EmptyFile(r) == [exists |-> TRUE, owner |-> r, src |-> r, gz |-> FALSE, size |-> 0]

\* a write through a path: the creator stays the owner of an existing file
Written(n, src, gz, size, r) ==
    [exists |-> TRUE, owner |-> IF fs[n].exists THEN fs[n].owner ELSE r,
     src |-> src, gz |-> gz, size |-> size]

\* lines 43-45: explicit arguments merged with the environment
Resolve(a) ==
    [db_url        |-> PyOr(a.db_url, EnvGet("DATABASE_URL")),
     bucket_name   |-> PyOr(a.bucket_name, EnvGet("BUCKET_NAME")),
     backup_prefix |-> PyOr(a.backup_prefix, EnvGetDefault("BACKUP_PREFIX", <<>>)),
     compress      |-> a.compress]

\* lines 43-52: merge, validate, name the object (the invocations are
\* numbered in their order of arrival)
backup_db_enter(r, who, a, t) ==
    LET c   == Resolve(a)
        bad == _validate_env(c.db_url, c.bucket_name)
        rec(name) == [set |-> TRUE, db_url |-> c.db_url, bucket_name |-> c.bucket_name,
                      backup_prefix |-> c.backup_prefix, compress |-> c.compress,
                      time |-> t, upload_name |-> name]
    IN  /\ pc[r] = "idle"
        /\ \A q \in Runs : q < r => pc[q] # "idle"
        /\ entry' = [entry EXCEPT ![r] = who]
        /\ IF bad # NoneStr
           THEN /\ cfg' = [cfg EXCEPT ![r] = rec(NoneStr)]
                /\ outcome' = [outcome EXCEPT ![r] = Err("ValueError", bad)]
                /\ pc' = [pc EXCEPT ![r] = "returned"]
           ELSE /\ cfg' = [cfg EXCEPT ![r] = rec(upload_name(t, c.compress))]
                /\ outcome' = outcome
                /\ pc' = [pc EXCEPT ![r] = "mktemp"]
        /\ UNCHANGED <<env, clock, tmp_sql, gz_path, fs, effects, uploadCall, pending, response>>

\* lines 121-124: the arguments main() passes, all read from the environment
MainArgs ==
    [db_url |-> EnvGet("DATABASE_URL"), bucket_name |-> EnvGet("BUCKET_NAME"),
     backup_prefix |-> EnvGet("BACKUP_PREFIX"),
     compress |-> _env_bool(EnvGet("BACKUP_COMPRESS"), TRUE)]

\* line 145: backup_db() called with its defaults (line 31)
HttpArgs ==
    [db_url |-> NoneStr, bucket_name |-> NoneStr, backup_prefix |-> NoneStr,
     compress |-> TRUE]

\* main()
Main(r) == \E t \in clock : backup_db_enter(r, "main", MainArgs, t)

\* trigger_backup()
trigger_backup(r) == \E t \in clock : backup_db_enter(r, "http", HttpArgs, t)

\* line 55: the dump's temporary file
CreateTmpSql(r) ==
    /\ pc[r] = "mktemp"
    /\ \E n \in TempCandidates :
          /\ fs' = [fs EXCEPT ![n] = EmptyFile(r)]
          /\ tmp_sql' = [tmp_sql EXCEPT ![r] = n]
    /\ Log(r, "tmp_sql")
    /\ pc' = [pc EXCEPT ![r] = "dump"]
    /\ UNCHANGED <<env, clock, entry, cfg, gz_path, uploadCall, pending, outcome, response>>

\* line 55 raising (outside the try): nothing was created
CreateTmpSqlFails(r) ==
    /\ pc[r] = "mktemp"
    /\ outcome' = [outcome EXCEPT ![r] = Err("OSError", <<"cannot create temporary file">>)]
    /\ pc' = [pc EXCEPT ![r] = "returned"]
    /\ UNCHANGED <<env, clock, entry, cfg, tmp_sql, gz_path, fs, effects, uploadCall, pending, response>>

\* leaving the try body with a result or an error, held while the finally block runs
LeaveTry(r, e) ==
    /\ pending' = [pending EXCEPT ![r] = e]
    /\ pc' = [pc EXCEPT ![r] = "cleanup_sql"]

PgDumpCmd == EnvGetDefault("PG_DUMP_PATH", <<"pg_dump">>)

\* mutant: the compress flag is not consulted after the dump
DumpOkAlwaysCompress(r) ==
    /\ pc[r] = "dump"
    /\ \E s \in Sizes :
          fs' = [fs EXCEPT ![tmp_sql[r]] = Written(tmp_sql[r], r, FALSE, s, r)]
    /\ Log(r, "pg_dump")
    /\ pc' = [pc EXCEPT ![r] = "mkgz"]
    /\ UNCHANGED <<env, clock, entry, cfg, tmp_sql, gz_path, uploadCall, pending, outcome, response>>

\* line 65: pg_dump exits 0 having written the dump
DumpOk(r) ==
    /\ pc[r] = "dump"
    /\ \E s \in Sizes :
          fs' = [fs EXCEPT ![tmp_sql[r]] = Written(tmp_sql[r], r, FALSE, s, r)]
    /\ Log(r, "pg_dump")
    /\ pc' = [pc EXCEPT ![r] = IF cfg[r].compress THEN "mkgz" ELSE "upload"]
    /\ UNCHANGED <<env, clock, entry, cfg, tmp_sql, gz_path, uploadCall, pending, outcome, response>>

\* lines 66-69: the executable is missing
DumpNotFound(r) ==
    /\ pc[r] = "dump"
    /\ Log(r, "pg_dump_not_found")
    /\ LeaveTry(r, Err("RuntimeError", <<"pg_dump not found: ">> \o PgDumpCmd))
    /\ UNCHANGED <<env, clock, entry, cfg, tmp_sql, gz_path, fs, uploadCall, outcome, response>>

\* mutant: subprocess.run without check=True, the exit status is ignored
DumpNonZeroUnchecked(r) ==
    /\ pc[r] = "dump"
    /\ effects' = [effects EXCEPT ![r] = @ \cup {"pg_dump", "pg_dump_nonzero"}]
    /\ pc' = [pc EXCEPT ![r] = IF cfg[r].compress THEN "mkgz" ELSE "upload"]
    /\ UNCHANGED <<env, clock, entry, cfg, tmp_sql, gz_path, fs, uploadCall, pending, outcome, response>>

\* lines 65, 94-96: pg_dump exits non-zero
DumpNonZero(r) ==
    /\ pc[r] = "dump"
    /\ effects' = [effects EXCEPT ![r] = @ \cup {"pg_dump", "pg_dump_nonzero"}]
    /\ LeaveTry(r, Err("CalledProcessError",
                    <<"Command ">> \o PgDumpCmd \o <<" returned non-zero exit status">>))
    /\ UNCHANGED <<env, clock, entry, cfg, tmp_sql, gz_path, fs, uploadCall, outcome, response>>

\* lines 73-74: the gzip temporary file
CreateTmpGz(r) ==
    /\ pc[r] = "mkgz"
    /\ \E n \in TempCandidates :
          /\ fs' = [fs EXCEPT ![n] = EmptyFile(r)]
          /\ gz_path' = [gz_path EXCEPT ![r] = n]
    /\ Log(r, "tmp_gz")
    /\ pc' = [pc EXCEPT ![r] = "gzip"]
    /\ UNCHANGED <<env, clock, entry, cfg, tmp_sql, uploadCall, pending, outcome, response>>

\* line 73 raising: gz_path stays unbound
CreateTmpGzFails(r) ==
    /\ pc[r] = "mkgz"
    /\ LeaveTry(r, Err("OSError", <<"cannot create temporary file">>))
    /\ UNCHANGED <<env, clock, entry, cfg, tmp_sql, gz_path, fs, effects, uploadCall, outcome, response>>

\* lines 76-78: copy the dump through gzip
GzipCopy(r) ==
    /\ pc[r] = "gzip"
    /\ Exists(tmp_sql[r])
    /\ \E s \in Sizes :
          fs' = [fs EXCEPT ![gz_path[r]] =
                    Written(gz_path[r], fs[tmp_sql[r]].src, TRUE, s, r)]
    /\ Log(r, "gzip")
    /\ pc' = [pc EXCEPT ![r] = "upload"]
    /\ UNCHANGED <<env, clock, entry, cfg, tmp_sql, gz_path, uploadCall, pending, outcome, response>>

\* lines 76-77 raising
GzipFails(r) ==
    /\ pc[r] = "gzip"
    /\ Log(r, "gzip")
    /\ LeaveTry(r, Err("OSError", <<"compression failed">>))
    /\ UNCHANGED <<env, clock, entry, cfg, tmp_sql, gz_path, fs, uploadCall, outcome, response>>

\* line 81 raising: no storage client
ClientFails(r) ==
    /\ pc[r] = "upload"
    /\ Log(r, "client")
    /\ LeaveTry(r, Err("DefaultCredentialsError", <<"no credentials">>))
    /\ UNCHANGED <<env, clock, entry, cfg, tmp_sql, gz_path, fs, uploadCall, outcome, response>>

\* lines 81-87: the upload of upload_path under the object key
UploadOk(r) ==
    /\ pc[r] = "upload"
    /\ Exists(upload_path(r))
    /\ uploadCall' = [uploadCall EXCEPT ![r] =
            [made |-> TRUE, path |-> upload_path(r), bucket |-> cfg[r].bucket_name,
             blob |-> _safe_blob_name(cfg[r].backup_prefix, cfg[r].upload_name),
             data |-> fs[upload_path(r)]]]
    /\ effects' = [effects EXCEPT ![r] = @ \cup {"client", "upload"}]
    /\ pc' = [pc EXCEPT ![r] = "getsize"]
    /\ UNCHANGED <<env, clock, entry, cfg, tmp_sql, gz_path, fs, pending, outcome, response>>

\* line 87 raising
UploadFails(r) ==
    /\ pc[r] = "upload"
    /\ effects' = [effects EXCEPT ![r] = @ \cup {"client", "upload"}]
    /\ LeaveTry(r, Err("GoogleCloudError", <<"upload failed">>))
    /\ UNCHANGED <<env, clock, entry, cfg, tmp_sql, gz_path, fs, uploadCall, outcome, response>>

\* lines 89-92: the size of the uploaded file, and the result
GetSizeOk(r) ==
    /\ pc[r] = "getsize"
    /\ Exists(upload_path(r))
    /\ Log(r, "getsize")
    /\ LeaveTry(r, Ok(cfg[r].bucket_name,
                   _safe_blob_name(cfg[r].backup_prefix, cfg[r].upload_name),
                   fs[upload_path(r)].size))
    /\ UNCHANGED <<env, clock, entry, cfg, tmp_sql, gz_path, fs, uploadCall, outcome, response>>

\* line 89 raising
GetSizeFails(r) ==
    /\ pc[r] = "getsize"
    /\ Log(r, "getsize")
    /\ LeaveTry(r, Err("OSError", <<"cannot stat file">>))
    /\ UNCHANGED <<env, clock, entry, cfg, tmp_sql, gz_path, fs, uploadCall, outcome, response>>

(* ------------------------- the finally block --------------------------- *)
\* lines 99-101: remove the dump file if it exists
CleanupSql(r) ==
    /\ pc[r] = "cleanup_sql"
    /\ IF Exists(tmp_sql[r])
       THEN /\ fs' = [fs EXCEPT ![tmp_sql[r]] = NoFile]
            /\ Log(r, "rm_sql")
       ELSE UNCHANGED <<fs, effects>>
    /\ pc' = [pc EXCEPT ![r] = "cleanup_gz"]
    /\ UNCHANGED <<env, clock, entry, cfg, tmp_sql, gz_path, uploadCall, pending, outcome, response>>

\* mutant: no try/except around os.remove, the OSError leaves the finally block
CleanupSqlFailsPropagates(r) ==
    /\ pc[r] = "cleanup_sql"
    /\ Exists(tmp_sql[r])
    /\ Log(r, "rm_sql_failed")
    /\ outcome' = [outcome EXCEPT ![r] = Err("OSError", <<"cannot remove file">>)]
    /\ tmp_sql' = [tmp_sql EXCEPT ![r] = 0]
    /\ gz_path' = [gz_path EXCEPT ![r] = 0]
    /\ pc' = [pc EXCEPT ![r] = "returned"]
    /\ UNCHANGED <<env, clock, entry, cfg, fs, uploadCall, pending, response>>

\* lines 101-103: os.remove raises, the exception is logged and dropped
CleanupSqlFails(r) ==
    /\ pc[r] = "cleanup_sql"
    /\ Exists(tmp_sql[r])
    /\ Log(r, "rm_sql_failed")
    /\ pc' = [pc EXCEPT ![r] = "cleanup_gz"]
    /\ UNCHANGED <<env, clock, entry, cfg, tmp_sql, gz_path, fs, uploadCall, pending, outcome, response>>

\* the end of the finally block: the held result or error leaves backup_db,
\* and its local variables go out of scope
Return(r) ==
    /\ outcome' = [outcome EXCEPT ![r] = pending[r]]
    /\ tmp_sql' = [tmp_sql EXCEPT ![r] = 0]
    /\ gz_path' = [gz_path EXCEPT ![r] = 0]
    /\ pc' = [pc EXCEPT ![r] = "returned"]

\* mutant: the gzip file is removed only after a successful upload
GzToRemoveOnSuccess(r) ==
    /\ cfg[r].compress /\ gz_path[r] # 0 /\ Exists(gz_path[r])
    /\ pending[r].kind = "ok"

\* the condition of lines 105-107
GzToRemove(r) == cfg[r].compress /\ gz_path[r] # 0 /\ Exists(gz_path[r])

\* lines 105-108: remove the gzip file if compressing, bound and existing
CleanupGz(r) ==
    /\ pc[r] = "cleanup_gz"
    /\ IF GzToRemove(r)
       THEN /\ fs' = [fs EXCEPT ![gz_path[r]] = NoFile]
            /\ Log(r, "rm_gz")
       ELSE UNCHANGED <<fs, effects>>
    /\ Return(r)
    /\ UNCHANGED <<env, clock, entry, cfg, uploadCall, pending, response>>

\* lines 108-110: os.remove raises, the exception is logged and dropped
CleanupGzFails(r) ==
    /\ pc[r] = "cleanup_gz"
    /\ GzToRemove(r)
    /\ Log(r, "rm_gz_failed")
    /\ Return(r)
    /\ UNCHANGED <<env, clock, entry, cfg, fs, uploadCall, pending, response>>

(* --------------------------- the callers ------------------------------- *)
\* mutant: the error is answered with the success status
HttpResponseAlways200(o) ==
    IF o.kind = "ok"
    THEN [kind |-> "http", status |-> 200,
          body |-> [bucket |-> o.bucket, blob |-> o.blob, size |-> o.size],
          raised |-> NoOutcome]
    ELSE [kind |-> "http", status |-> 200, body |-> [error |-> o.msg],
          raised |-> NoOutcome]

\* lines 144-149: jsonify(result), 200 or jsonify({"error": str(e)}), 500
HttpResponse(o) ==
    IF o.kind = "ok"
    THEN [kind |-> "http", status |-> 200,
          body |-> [bucket |-> o.bucket, blob |-> o.blob, size |-> o.size],
          raised |-> NoOutcome]
    ELSE [kind |-> "http", status |-> 500, body |-> [error |-> o.msg],
          raised |-> NoOutcome]

HttpRespond(r) ==
    /\ pc[r] = "returned"
    /\ entry[r] = "http"
    /\ response' = [response EXCEPT ![r] = HttpResponse(outcome[r])]
    /\ pc' = [pc EXCEPT ![r] = "responded"]
    /\ UNCHANGED <<env, clock, entry, cfg, tmp_sql, gz_path, fs, effects, uploadCall, pending, outcome>>

\* lines 126-131 of main(): log, and re-raise the error if any
MainFinish(r) ==
    /\ pc[r] = "returned"
    /\ entry[r] = "main"
    /\ response' = [response EXCEPT ![r] =
            [kind |-> "exit",
             raised |-> IF outcome[r].kind = "err" THEN outcome[r] ELSE NoOutcome]]
    /\ pc' = [pc EXCEPT ![r] = "exited"]
    /\ UNCHANGED <<env, clock, entry, cfg, tmp_sql, gz_path, fs, effects, uploadCall, pending, outcome>>

Next ==
    \E r \in Runs :
        \/ Main(r)
        \/ trigger_backup(r)
        \/ CreateTmpSql(r)
        \/ CreateTmpSqlFails(r)
        \/ DumpOk(r)
        \/ DumpNotFound(r)
        \/ DumpNonZero(r)
        \/ CreateTmpGz(r)
        \/ CreateTmpGzFails(r)
        \/ GzipCopy(r)
        \/ GzipFails(r)
        \/ ClientFails(r)
        \/ UploadOk(r)
        \/ UploadFails(r)
        \/ GetSizeOk(r)
        \/ GetSizeFails(r)
        \/ CleanupSql(r)
        \/ CleanupSqlFails(r)
        \/ CleanupGz(r)
        \/ CleanupGzFails(r)
        \/ HttpRespond(r)
        \/ MainFinish(r)

Spec == Init /\ [][Next]_vars

SpecConc == InitConc /\ [][Next]_vars

TypeOK ==
    /\ env \in Envs
    /\ clock \subseteq Timestamps
    /\ \A r \in Runs : tmp_sql[r] \in 0..NumNames /\ gz_path[r] \in 0..NumNames

(* ----------------------------- properties ------------------------------ *)
Finished(r) == pc[r] \in {"returned", "responded", "exited"}
Validated(r) == cfg[r].set /\ cfg[r].upload_name # NoneStr
OwnedFiles(r) == { n \in Names : fs[n].exists /\ fs[n].owner = r }
RemovalFailed(r) == effects[r] \cap {"rm_sql_failed", "rm_gz_failed"} # {}
DumpFailed(r) == effects[r] \cap {"pg_dump_not_found", "pg_dump_nonzero"} # {}

EndsWith(s, suffix) ==
    /\ Len(s) >= Len(suffix)
    /\ SubSeq(s, Len(s) - Len(suffix) + 1, Len(s)) = suffix

\* C1: once a validated run of backup_db has returned or raised, on whatever
\* exit path, none of the temporary files it created exists, provided no
\* removal failed.
C1_NoTempFileLeft ==
    \A r \in Runs :
        (Finished(r) /\ Validated(r) /\ ~RemovalFailed(r)) => OwnedFiles(r) = {}

\* a run that compressed, failed reading the size after the upload, and
\* removed both of its files
C1_Witness ==
    \E r \in Runs :
        /\ Finished(r) /\ Validated(r) /\ ~RemovalFailed(r)
        /\ outcome[r].kind = "err" /\ outcome[r].msg = <<"cannot stat file">>
        /\ {"tmp_sql", "tmp_gz", "upload", "rm_sql", "rm_gz"} \subseteq effects[r]
        /\ OwnedFiles(r) = {}

\* C2: when the merged database URL or bucket name is empty or absent,
\* backup_db raises the configuration error and has had no side effect: no
\* temporary file, no dump subprocess, no storage client, no upload.
C2_ConfigErrorBeforeSideEffects ==
    \A r \in Runs :
        (cfg[r].set /\ (~Truthy(cfg[r].db_url) \/ ~Truthy(cfg[r].bucket_name))) =>
            /\ outcome[r].kind = "err" /\ outcome[r].type = "ValueError"
            /\ pending[r] = NoOutcome
            /\ effects[r] = {}
            /\ OwnedFiles(r) = {}
            /\ tmp_sql[r] = 0 /\ gz_path[r] = 0
            /\ ~uploadCall[r].made

\* the database URL is set and the bucket name is an empty string
C2_Witness ==
    \E r \in Runs :
        /\ cfg[r].set /\ Truthy(cfg[r].db_url) /\ cfg[r].bucket_name = <<>>
        /\ outcome[r] = Err("ValueError", <<"BUCKET_NAME is not set">>)
        /\ Finished(r)

\* C3: when pg_dump is not found or exits non-zero, the run ends with that
\* error: the compressor and the uploader are never invoked, no result is
\* returned, and cleanup removes the dump file (unless os.remove itself fails).
C3_DumpFailureStopsPipeline ==
    \A r \in Runs :
        DumpFailed(r) =>
            /\ effects[r] \cap {"tmp_gz", "gzip", "client", "upload", "getsize"} = {}
            /\ ~uploadCall[r].made
            /\ pending[r].kind = "err"
            /\ pending[r].type = (IF "pg_dump_nonzero" \in effects[r]
                                  THEN "CalledProcessError" ELSE "RuntimeError")
            /\ outcome[r].kind # "ok"
            /\ Finished(r) =>
                  /\ outcome[r] = pending[r]
                  /\ effects[r] \cap {"rm_sql", "rm_sql_failed"} # {}
                  /\ "rm_sql" \in effects[r] => OwnedFiles(r) = {}

\* pg_dump exited non-zero, the run has raised and the dump file is removed
C3_Witness ==
    \E r \in Runs :
        /\ "pg_dump_nonzero" \in effects[r] /\ Finished(r)
        /\ outcome[r].kind = "err" /\ outcome[r].type = "CalledProcessError"
        /\ "rm_sql" \in effects[r] /\ OwnedFiles(r) = {}

\* C4: a failure to remove a temporary file never changes what backup_db
\* yields: the result or the error of the body is what the caller gets, and
\* after a failed removal of the .sql file the removal of an existing .sql.gz
\* file is still attempted.
C4_CleanupFailureKeepsOutcome ==
    \A r \in Runs :
        /\ (Finished(r) /\ RemovalFailed(r)) =>
              /\ pending[r].kind \in {"ok", "err"}
              /\ outcome[r] = pending[r]
        /\ (Finished(r) /\ "rm_sql_failed" \in effects[r] /\ "tmp_gz" \in effects[r]) =>
              effects[r] \cap {"rm_gz", "rm_gz_failed"} # {}
        /\ (pc[r] = "responded" /\ RemovalFailed(r)) =>
              response[r].status = (IF pending[r].kind = "ok" THEN 200 ELSE 500)

\* the upload succeeded, the removal of the .sql file failed, the .sql.gz file
\* was removed and the result is returned
C4_Witness ==
    \E r \in Runs :
        /\ Finished(r) /\ "rm_sql_failed" \in effects[r] /\ "rm_gz" \in effects[r]
        /\ outcome[r].kind = "ok"

\* C5: with compress false the compressor is never invoked, no .sql.gz file is
\* created, the raw dump is what is uploaded and the key does not end in .gz;
\* with compress true the gzip file is what is uploaded and the key ends in
\* .sql.gz; in both cases the returned size is the size of the uploaded file.
C5_CompressFlag ==
    \A r \in Runs :
        Validated(r) =>
            /\ ~cfg[r].compress =>
                  /\ effects[r] \cap {"tmp_gz", "gzip"} = {}
                  /\ gz_path[r] = 0
                  /\ \A n \in OwnedFiles(r) : ~fs[n].gz
                  /\ uploadCall[r].made =>
                        /\ ~uploadCall[r].data.gz
                        /\ ~Finished(r) => uploadCall[r].path = tmp_sql[r]
                        /\ ~EndsWith(uploadCall[r].blob, <<".", "g", "z">>)
                        /\ EndsWith(uploadCall[r].blob, <<".", "s", "q", "l">>)
            /\ (cfg[r].compress /\ uploadCall[r].made) =>
                        /\ uploadCall[r].data.gz
                        /\ "gzip" \in effects[r]
                        /\ ~Finished(r) =>
                              /\ uploadCall[r].path = gz_path[r]
                              /\ uploadCall[r].path # tmp_sql[r]
                        /\ EndsWith(uploadCall[r].blob, <<".", "s", "q", "l", ".", "g", "z">>)
            /\ pending[r].kind = "ok" =>
                  /\ uploadCall[r].made
                  /\ pending[r].size = uploadCall[r].data.size
                  /\ pending[r].blob = uploadCall[r].blob

\* compression disabled, the raw dump uploaded and its size returned
C5_Witness ==
    \E r \in Runs :
        /\ Validated(r) /\ ~cfg[r].compress /\ Finished(r)
        /\ uploadCall[r].made /\ ~uploadCall[r].data.gz
        /\ outcome[r].kind = "ok" /\ outcome[r].size = uploadCall[r].data.size

\* the documented name: backup-{YYYYMMDD-HHMMSS}.sql{.gz if compressed}
DocumentedName(t, compress) ==
    <<"b", "a", "c", "k", "u", "p", "-">> \o Strftime(t) \o <<".", "s", "q", "l">>
        \o (IF compress THEN <<".", "g", "z">> ELSE <<>>)

\* the keys a run has produced: the one uploaded to, the one in the result
Keys(r) ==
    (IF uploadCall[r].made THEN {uploadCall[r].blob} ELSE {})
        \cup (IF pending[r].kind = "ok" THEN {pending[r].blob} ELSE {})

ExampleTime == [Y |-> 2024, M |-> 1, D |-> 2, h |-> 3, m |-> 4, s |-> 5]
ExampleKey ==
    <<"n", "i", "g", "h", "t", "l", "y", "/", "b", "a", "c", "k", "u", "p", "-",
      "2", "0", "2", "4", "0", "1", "0", "2", "-", "0", "3", "0", "4", "0", "5",
      ".", "s", "q", "l", ".", "g", "z">>

\* C6 as stated: the key is the bare name for an empty prefix and, for a
\* non-empty prefix, the prefix as given, one "/", then the name.
C6_KeyIsPrefixSlashName ==
    \A r \in Runs : \A k \in Keys(r) :
        k = (IF cfg[r].backup_prefix = <<>> THEN <<>>
             ELSE cfg[r].backup_prefix \o <<"/">>)
            \o DocumentedName(cfg[r].time, cfg[r].compress)

\* C6 amended: the key is the bare name for an empty prefix and, for a
\* non-empty prefix, the prefix without its trailing "/" characters, one "/",
\* then the name; prefix "nightly", compress true, 2024-01-02T03:04:05Z gives
\* nightly/backup-20240102-030405.sql.gz.
C6_KeyIsStrippedPrefixSlashName ==
    \A r \in Runs : \A k \in Keys(r) :
        LET p    == cfg[r].backup_prefix
            name == DocumentedName(cfg[r].time, cfg[r].compress)
        IN  /\ p = <<>> => (k = name /\ k[1] # "/")
            /\ p # <<>> =>
                  \E j \in 0..Len(p) :
                      /\ j > 0 => p[j] # "/"
                      /\ \A i \in (j + 1)..Len(p) : p[i] = "/"
                      /\ k = SubSeq(p, 1, j) \o <<"/">> \o name
            /\ (p = <<"n", "i", "g", "h", "t", "l", "y">> /\ cfg[r].compress
                  /\ cfg[r].time = ExampleTime) => k = ExampleKey

\* a prefix with two trailing slashes, joined with a single one
C6_Witness ==
    \E r \in Runs :
        /\ cfg[r].set /\ cfg[r].backup_prefix = <<"a", "/", "/">>
        /\ cfg[r].compress /\ cfg[r].time = ExampleTime
        /\ uploadCall[r].made
        /\ uploadCall[r].blob = <<"a", "/">> \o DocumentedName(ExampleTime, TRUE)

\* C7: the configuration a request to /backup runs with is, field by field,
\* the one main() runs with under the same environment, the compress flag
\* included.
C7_HttpConfigEqualsMainConfig ==
    \A r \in Runs :
        (entry[r] = "http" /\ cfg[r].set) =>
            /\ cfg[r].db_url = Resolve(MainArgs).db_url
            /\ cfg[r].bucket_name = Resolve(MainArgs).bucket_name
            /\ cfg[r].backup_prefix = Resolve(MainArgs).backup_prefix
            /\ cfg[r].compress = Resolve(MainArgs).compress

\* C8: a request to /backup is answered 200 with the pipeline's bucket, blob
\* and size when backup_db returned, and 500 with the error's message when it
\* raised; nothing is raised out of the handler.
C8_HttpEnvelope ==
    \A r \in Runs :
        /\ entry[r] = "http" => pc[r] # "exited"
        /\ (entry[r] = "http" /\ pc[r] = "responded") =>
              /\ response[r].kind = "http"
              /\ response[r].raised = NoOutcome
              /\ outcome[r].kind \in {"ok", "err"}
              /\ outcome[r].kind = "ok" =>
                    /\ response[r].status = 200
                    /\ response[r].body = [bucket |-> outcome[r].bucket,
                                           blob |-> outcome[r].blob,
                                           size |-> outcome[r].size]
              /\ outcome[r].kind = "err" =>
                    /\ response[r].status = 500
                    /\ response[r].body = [error |-> outcome[r].msg]

\* pg_dump was not found: 500 with the message naming the executable
C8_Witness ==
    \E r \in Runs :
        /\ entry[r] = "http" /\ pc[r] = "responded"
        /\ response[r].status = 500
        /\ response[r].body = [error |-> <<"pg_dump not found: ", "pg_dump">>]

LiveSql(r) == IF tmp_sql[r] # 0 /\ "rm_sql" \notin effects[r] THEN {tmp_sql[r]} ELSE {}
LiveGz(r) == IF gz_path[r] # 0 /\ "rm_gz" \notin effects[r] THEN {gz_path[r]} ELSE {}
\* the temporary files a run has created and not yet removed
Live(r) == LiveSql(r) \cup LiveGz(r)

\* C9: two concurrent runs never share a temporary file: their sets of files
\* are disjoint, each file a run still uses exists, was created by that run and
\* holds that run's data, what a run uploads and reports comes from its own
\* dump, and no step of one run creates, alters or removes a file of the other.
C9_RunsIsolated ==
    /\ [](\A r \in Runs :
            /\ \A n \in Live(r) : fs[n].exists /\ fs[n].owner = r /\ fs[n].src = r
            /\ \A q \in Runs \ {r} : Live(r) \cap Live(q) = {}
            /\ uploadCall[r].made =>
                  /\ uploadCall[r].data.owner = r
                  /\ uploadCall[r].data.src = r
                  /\ uploadCall[r].data.gz = cfg[r].compress
                  /\ uploadCall[r].data.size \in Sizes
            /\ pending[r].kind = "ok" => pending[r].size = uploadCall[r].data.size)
    /\ [][\A r \in Runs : \A n \in Names :
            (pc'[r] = pc[r] /\ (n \in Live(r) \/ (fs[n].exists /\ fs[n].owner = r)))
                => fs'[n] = fs[n]]_vars

\* run 1 has returned its result and removed its files while run 2, which
\* created its dump file while run 1's existed, is about to upload
C9_Witness ==
    /\ outcome[1].kind = "ok" /\ Finished(1) /\ OwnedFiles(1) = {}
    /\ pc[2] = "upload" /\ cfg[2].compress
    /\ tmp_sql[2] = 2 /\ gz_path[2] # 0
    /\ OwnedFiles(2) = {tmp_sql[2], gz_path[2]}

\* the orchestrator's state, read off the position in backup_db
Phase(r) ==
    IF pc[r] = "off" THEN "Off"
    ELSE IF pending[r].kind = "ok" THEN "Done"
    ELSE IF pending[r].kind = "err" \/ outcome[r].kind = "err" THEN "Failed"
    ELSE IF pc[r] = "idle" THEN "Idle"
    ELSE IF pc[r] \in {"mktemp", "dump"} THEN "Dumping"
    ELSE IF pc[r] \in {"mkgz", "gzip"} THEN "Compressing"
    ELSE "Uploading"

CleanupEvents == {"rm_sql", "rm_sql_failed", "rm_gz", "rm_gz_failed"}

\* C10: a run moves Idle -> Dumping -> (Compressing) -> Uploading -> Done:
\* Compressing is entered only from Dumping, after pg_dump succeeded and with
\* compression enabled; Uploading only after the dump and, when enabled, the
\* compression succeeded; Done only from Uploading after the upload; Failed is
\* entered from Dumping, Compressing or Uploading (or from Idle, by the
\* configuration error) and is never left, only cleanup running after it.
C10_StateOrder ==
    [][\A r \in Runs :
        LET a == Phase(r)
            b == Phase(r)'
            new == effects'[r] \ effects[r]
        IN  /\ a # b =>
                  /\ <<a, b>> \in { <<"Idle", "Dumping">>, <<"Dumping", "Compressing">>,
                                   <<"Dumping", "Uploading">>, <<"Compressing", "Uploading">>,
                                   <<"Uploading", "Done">>, <<"Idle", "Failed">>,
                                   <<"Dumping", "Failed">>, <<"Compressing", "Failed">>,
                                   <<"Uploading", "Failed">> }
                  /\ b = "Compressing" =>
                        /\ cfg[r].compress
                        /\ "pg_dump" \in effects'[r] /\ ~DumpFailed(r)'
                  /\ b = "Uploading" =>
                        /\ "pg_dump" \in effects'[r] /\ ~DumpFailed(r)'
                        /\ cfg[r].compress <=> (a = "Compressing")
                        /\ cfg[r].compress => "gzip" \in effects'[r]
                  /\ b = "Done" => "upload" \in effects[r] /\ uploadCall[r].made
                  /\ (a = "Idle" /\ b = "Failed") => outcome'[r].type = "ValueError"
            /\ a \in {"Failed", "Done"} => (b = a /\ new \subseteq CleanupEvents)
            /\ a = "Done" => pending'[r] = pending[r]
      ]_vars

\* compression failed after a successful dump: Failed, entered from Compressing
C10_Witness ==
    \E r \in Runs :
        /\ Phase(r) = "Failed" /\ pending[r].kind = "err"
        /\ pending[r].msg = <<"compression failed">>
        /\ {"pg_dump", "gzip"} \subseteq effects[r]
        /\ effects[r] \cap {"client", "upload"} = {}
        /\ Finished(r)
====
